---- MODULE Spec2Model ----
(***************************************************************************)
(* A model of backend/main.py: the ContextManager (in-process session      *)
(* cache over the chat_history table), the external tool adapters, the     *)
(* memories table, and the chat_message tool-dispatch loop.                *)
(*                                                                         *)
(* Python dicts are functions whose DOMAIN is the set of keys present;     *)
(* dict.get(k, d) is Get(d, k, default).  Python lists are sequences.      *)
(* Strings whose content the code inspects (model output, titles) are      *)
(* sequences of atoms, see the section on text.                            *)
(***************************************************************************)
EXTENDS Integers, Sequences, FiniteSets, TLC

VARIABLES
    env,           \* configuration read at import: which keys are set
    sessions,      \* ContextManager.sessions: dict session_id -> list of messages
    chat_history,  \* external table chat_history: a set of rows
    memories,      \* external table memories: a set of rows
    now,           \* logical datetime.utcnow(): the created_at of the next row stored
    req,           \* the chat_message requests: position and locals of each
    nturns,        \* number of chat requests started so far
    cleared,       \* history variable: per session, the latest DELETE /chat/history
    nclears,       \* history variable: number of DELETE requests so far
    last_get,      \* history variable: the latest direct get_context call
    last_call,     \* history variable: the latest direct adapter call
    log,           \* history variable: contents appended per session by this process
    nadds,         \* history variable: number of add_message calls driven directly
    ndisturb       \* history variable: number of environment events so far

vars == <<env, sessions, chat_history, memories, now, req, nturns, cleared, nclears,
          last_get, last_call, log, nadds, ndisturb>>
chatvars == <<req, nturns, cleared, nclears>>

(***************************************************************************)
(* Program constants and bounds                                            *)
(***************************************************************************)
MaxContext == 50       \* messages kept per session in the cache, loaded per read
MaxAdds == 52          \* bound: direct add_message calls in one behaviour
MaxDisturb == 1        \* bound: restarts + storage write failures + foreign writes

CtxSessions == {"s1"}
Roles == {"user", "assistant"}
NoCall == [kind |-> "none"]

(***************************************************************************)
(* Generic helpers                                                         *)
(***************************************************************************)
Get(d, k, default) == IF k \in DOMAIN d THEN d[k] ELSE default

\* Python list[-n:]
LastN(list, n) ==
    IF Len(list) <= n THEN list ELSE SubSeq(list, Len(list) - n + 1, Len(list))

\* Python list[:n]
FirstN(list, n) ==
    IF Len(list) <= n THEN list ELSE SubSeq(list, 1, n)

\* dict with d[k] = v set
DictSet(d, k, v) == [x \in DOMAIN d \cup {k} |-> IF x = k THEN v ELSE d[x]]

\* del d[k]
DictDel(d, k) == [x \in DOMAIN d \ {k} |-> d[x]]

(***************************************************************************)
(* The chat_history table                                                  *)
(***************************************************************************)
\* .order("created_at", desc=False): the rows of a set in ascending created_at
RECURSIVE OrderAsc(_)
OrderAsc(rows) ==
    IF rows = {} THEN <<>>
    ELSE LET first == CHOOSE r \in rows : \A q \in rows : r.created_at <= q.created_at
         IN  <<first>> \o OrderAsc(rows \ {first})

\* .order("created_at", desc=True)
RECURSIVE OrderDesc(_)
OrderDesc(rows) ==
    IF rows = {} THEN <<>>
    ELSE LET first == CHOOSE r \in rows : \A q \in rows : r.created_at >= q.created_at
         IN  <<first>> \o OrderDesc(rows \ {first})

\* .eq("session_id", session_id)
RowsOf(table, session_id) == {r \in table : r.session_id = session_id}

\* select(...).eq("session_id", sid).order("created_at", desc=False).limit(50)
SelectHistory(table, session_id) ==
    FirstN(OrderAsc(RowsOf(table, session_id)), MaxContext)

\* the list comprehension of get_context: rows to {"role", "content"} messages
\* (turn is a history field: the chat turn a message belongs to, 0 outside a turn)
RowToMsg(row) == [role |-> row.role, content |-> row.content, turn |-> row.turn]

HistoryOf(table, session_id) ==
    LET data == SelectHistory(table, session_id)
    IN  [i \in 1..Len(data) |-> RowToMsg(data[i])]

(***************************************************************************)
(* ContextManager                                                          *)
(***************************************************************************)
\* a variant that keeps the first 50 instead of the last 50
TruncateOldest(list) ==
    IF Len(list) > MaxContext THEN FirstN(list, MaxContext) ELSE list

\* lines 104-105: keep the last 50
Truncate(list) ==
    IF Len(list) > MaxContext THEN LastN(list, MaxContext) ELSE list

\* a variant in which the writer replaces the cached list with its own message
CacheOverwrite(sess, session_id, msg) ==
    DictSet(sess, session_id, <<msg>>)

\* lines 99-105: the cache after add_message
CacheAppend(sess, session_id, msg) ==
    LET base == IF session_id \in DOMAIN sess THEN sess[session_id] ELSE <<>>
    IN  DictSet(sess, session_id, Truncate(Append(base, msg)))

\* lines 108-117: the best-effort insert; db_ok = FALSE is execute() raising
InsertHistory(table, session_id, msg, t, db_ok) ==
    IF env.supabase /\ db_ok
    THEN table \cup {[session_id |-> session_id, role |-> msg.role,
                      content |-> msg.content, created_at |-> t, turn |-> msg.turn]}
    ELSE table

\* add_message as a step on sessions, chat_history and the clock
AddMessage(session_id, msg, db_ok) ==
    /\ sessions' = CacheAppend(sessions, session_id, msg)
    /\ chat_history' = InsertHistory(chat_history, session_id, msg, now, db_ok)
    /\ now' = IF env.supabase /\ db_ok THEN now + 1 ELSE now

\* a variant that reads storage on every call, cached or not
GetContextReread(sess, table, session_id, db_ok) ==
    IF env.supabase /\ db_ok
    THEN LET history == HistoryOf(table, session_id)
         IN  [ret |-> history, sessions |-> DictSet(sess, session_id, history),
              read |-> TRUE]
    ELSE [ret |-> IF session_id \in DOMAIN sess THEN sess[session_id] ELSE <<>>,
          sessions |-> sess, read |-> env.supabase]

\* get_context: the value returned, the cache afterwards, whether storage was read
GetContext(sess, table, session_id, db_ok) ==
    IF session_id \in DOMAIN sess
    THEN [ret |-> sess[session_id], sessions |-> sess, read |-> FALSE]
    ELSE IF env.supabase
         THEN IF db_ok
              THEN LET history == HistoryOf(table, session_id)
                   IN  [ret |-> history,
                        sessions |-> DictSet(sess, session_id, history),
                        read |-> TRUE]
              ELSE [ret |-> <<>>, sessions |-> sess, read |-> TRUE]
         ELSE [ret |-> <<>>, sessions |-> sess, read |-> FALSE]

(***************************************************************************)
(* Text.  A string the code inspects is a sequence of atoms.  Each         *)
(* character of the literals the code looks for ("[", "TOOL:", "_search",  *)
(* "_search:", "<think>", "</think>") is an atom of its own, so that a     *)
(* literal is found wherever its characters are adjacent, also when they   *)
(* become adjacent because a span between them was removed.  " " is        *)
(* whitespace (a blank or a line break); the whitespace between the atoms  *)
(* of a sentence the code builds is not written, the whitespace at an end  *)
(* of a text is.  Every other atom ("ok", a title, a canned sentence) is   *)
(* a run of characters that neither begins nor ends a part of a literal.   *)
(* The empty string is <<>>.                                               *)
(***************************************************************************)
None == "None"                  \* Python None where a str is expected
NoneText == <<"<None>">>        \* None where a text is expected: an atom no text holds

\* the characters of a literal of the code
Chars(pat) ==
    CASE pat = "TOOL:" -> <<"T", "O", "O", "L", ":">>
      [] pat = "_search" -> <<"_", "s", "e", "a", "r", "c", "h">>
      [] pat = "_search:" -> <<"_", "s", "e", "a", "r", "c", "h", ":">>
      [] pat = "<think>" -> <<"<", "t", "h", "i", "n", "k", ">">>
      [] pat = "</think>" -> <<"<", "/", "t", "h", "i", "n", "k", ">">>
      [] OTHER -> <<pat>>

\* text.startswith(p), p a text
StartsWith(text, p) == Len(text) >= Len(p) /\ SubSeq(text, 1, Len(p)) = p

\* pat in text: the characters of pat occur next to each other
Contains(text, pat) ==
    LET p == Chars(pat)
    IN  \E i \in 1..(Len(text) - Len(p) + 1) : SubSeq(text, i, i + Len(p) - 1) = p

\* re.sub(r'<think>.*?</think>', '', text, flags=re.DOTALL): one pass from the
\* left, each span ending at the first </think> after its <think>; what is
\* left of two neighbours of a span is joined and not scanned again
RECURSIVE StripThink(_)
StripThink(text) ==
    LET open == Chars("<think>")
        close == Chars("</think>")
        Closes(j) == StartsWith(SubSeq(text, j, Len(text)), close)
        ends == {j \in (Len(open) + 1)..Len(text) : Closes(j)}
    IN  IF text = <<>> THEN <<>>
        ELSE IF StartsWith(text, open) /\ ends # {}
             THEN LET first == CHOOSE j \in ends : \A k \in ends : j <= k
                  IN  StripThink(SubSeq(text, first + Len(close), Len(text)))
             ELSE <<Head(text)>> \o StripThink(Tail(text))

\* str.strip()
RECURSIVE LStrip(_)
LStrip(text) ==
    IF text # <<>> /\ Head(text) = " " THEN LStrip(Tail(text)) ELSE text

RECURSIVE RStrip(_)
RStrip(text) ==
    IF text # <<>> /\ text[Len(text)] = " "
    THEN RStrip(SubSeq(text, 1, Len(text) - 1)) ELSE text

Strip(text) == RStrip(LStrip(text))

\* x or "" for a text that may be None
OrEmpty(x) == IF x = NoneText THEN <<>> ELSE x

\* not x, for a text that may be None
Falsy(x) == x = NoneText \/ x = <<>>

(***************************************************************************)
(* External tool adapters.  net is what the outbound call does:            *)
(*   [kind |-> "raise", err]   the call raises (network error, timeout)    *)
(*   [kind |-> "body", status, json, n]  a response arrives; json says     *)
(*        whether its body is a JSON object ("object"), other JSON         *)
(*        ("other") or no JSON ("invalid"); n is the number of items       *)
(***************************************************************************)
SerperLimit == 5       \* [:5] of web_search and youtube_search
ImageLimit == 10       \* [:10] of image_search
RecallLimit == 10      \* .limit(10) of recall_memory

\* except Exception as e: return {"success": False, "error": str(e)}
Failure(err) == [success |-> FALSE, error |-> err]

\* what response.json() followed by data.get(...) raises, if anything
JsonError(net) ==
    IF net.json = "invalid" THEN <<"Expecting value">>
    ELSE <<"object has no attribute 'get'">>

Tag(prefix, i) == prefix \o ToString(i)

WebItem(i) == [title |-> Tag("T", i), snippet |-> Tag("S", i), link |-> Tag("L", i)]
NewsItem(i) == [title |-> Tag("T", i), description |-> Tag("D", i), url |-> Tag("L", i),
                publishedAt |-> Tag("P", i), source |-> Tag("N", i)]
ImageItem(i) == [title |-> Tag("T", i), imageUrl |-> Tag("I", i), link |-> Tag("L", i)]
VideoItem(i) == [title |-> Tag("T", i), link |-> Tag("L", i),
                 channel |-> Tag("C", i), duration |-> Tag("U", i)]

web_search(query, net) ==
    IF ~env.serper THEN [error |-> <<"Serper API key not configured">>]
    ELSE IF net.kind = "raise" THEN Failure(net.err)
    ELSE IF net.json # "object" THEN Failure(JsonError(net))
    ELSE LET results == FirstN([i \in 1..net.n |-> WebItem(i)], SerperLimit)
         IN  [success |-> TRUE, query |-> query, results |-> results,
              total |-> Len(results)]

news_search(query, country, net) ==
    IF ~env.gnews THEN [error |-> <<"GNews API key not configured">>]
    ELSE IF net.kind = "raise" THEN Failure(net.err)
    ELSE IF net.json # "object" THEN Failure(JsonError(net))
    ELSE LET articles == [i \in 1..net.n |-> NewsItem(i)]
         IN  [success |-> TRUE, query |-> query, articles |-> articles,
              total |-> Len(articles)]

image_search(query, net) ==
    IF ~env.serper THEN [error |-> <<"Serper API key not configured">>]
    ELSE IF net.kind = "raise" THEN Failure(net.err)
    ELSE IF net.json # "object" THEN Failure(JsonError(net))
    ELSE LET images == FirstN([i \in 1..net.n |-> ImageItem(i)], ImageLimit)
         IN  [success |-> TRUE, query |-> query, images |-> images,
              total |-> Len(images)]

youtube_search(query, net) ==
    IF ~env.serper THEN [error |-> <<"Serper API key not configured">>]
    ELSE IF net.kind = "raise" THEN Failure(net.err)
    ELSE IF net.json # "object" THEN Failure(JsonError(net))
    ELSE LET videos == FirstN([i \in 1..net.n |-> VideoItem(i)], SerperLimit)
         IN  [success |-> TRUE, query |-> query, videos |-> videos,
              total |-> Len(videos)]

fetch_webpage(url, net) ==
    IF net.kind = "raise" THEN Failure(net.err)
    ELSE [success |-> TRUE, url |-> url, content |-> <<"page">>, status |-> net.status]

\* the row save_memory inserts
MemoryRow(session_id, memory_type, content, t) ==
    [session_id |-> session_id, memory_type |-> memory_type,
     content |-> content, created_at |-> t]

\* the memories table after save_memory (net.kind = "raise": execute() raises)
MemoriesAfterSave(table, session_id, memory_type, content, t, net) ==
    IF env.supabase /\ net.kind # "raise"
    THEN table \cup {MemoryRow(session_id, memory_type, content, t)}
    ELSE table

save_memory(session_id, memory_type, content, net) ==
    IF ~env.supabase THEN [error |-> <<"Database not configured">>]
    ELSE IF net.kind = "raise" THEN Failure(net.err)
    ELSE [success |-> TRUE, message |-> <<"Memory saved: ", memory_type>>]

\* if memory_type: (None and "" are both false)
Truthy(memory_type) == memory_type \notin {None, ""}

\* the rows the query of recall_memory selects, before ordering
RecallRows(table, session_id, memory_type) ==
    LET mine == {r \in table : r.session_id = session_id}
    IN  IF Truthy(memory_type)
        THEN {r \in mine : r.memory_type = memory_type}
        ELSE mine

\* a variant that cuts to 10 rows before the type filter is applied
RecallDataLimitFirst(table, session_id, memory_type) ==
    LET cut == FirstN(OrderDesc({r \in table : r.session_id = session_id}), RecallLimit)
    IN  IF Truthy(memory_type)
        THEN SelectSeq(cut, LAMBDA r : r.memory_type = memory_type)
        ELSE cut

\* .order("created_at", desc=True).limit(10)
RecallData(table, session_id, memory_type) ==
    FirstN(OrderDesc(RecallRows(table, session_id, memory_type)), RecallLimit)

recall_memory(table, session_id, memory_type, net) ==
    IF ~env.supabase THEN [error |-> <<"Database not configured">>]
    ELSE IF net.kind = "raise" THEN Failure(net.err)
    ELSE LET data == RecallData(table, session_id, memory_type)
         IN  [success |-> TRUE, memories |-> data, total |-> Len(data)]

(***************************************************************************)
(* Tool dispatch: TOOL_IMPLEMENTATIONS and the keyword call of func               *)
(***************************************************************************)
SearchTools == {"web_search", "news_search", "image_search", "youtube_search"}
MemoryTools == {"save_memory", "recall_memory"}
TOOL_IMPLEMENTATIONS == SearchTools \cup {"fetch_webpage"} \cup MemoryTools

\* parameters without a default
Required(tool) ==
    CASE tool \in SearchTools -> {"query"}
      [] tool = "fetch_webpage" -> {"url"}
      [] tool = "save_memory" -> {"session_id", "memory_type", "content"}
      [] tool = "recall_memory" -> {"session_id"}

\* parameters with a default
Defaulted(tool) ==
    CASE tool = "news_search" -> {"country"}
      [] tool = "recall_memory" -> {"memory_type"}
      [] OTHER -> {}

\* the keyword call of func binds: otherwise the call raises TypeError
Binds(tool, args) ==
    /\ Required(tool) \subseteq DOMAIN args
    /\ DOMAIN args \subseteq Required(tool) \cup Defaulted(tool)

\* the dict the keyword call of func returns
CallTool(tool, args, table, net) ==
    CASE tool = "web_search" -> web_search(args.query, net)
      [] tool = "news_search" -> news_search(args.query, Get(args, "country", "us"), net)
      [] tool = "image_search" -> image_search(args.query, net)
      [] tool = "youtube_search" -> youtube_search(args.query, net)
      [] tool = "fetch_webpage" -> fetch_webpage(args.url, net)
      [] tool = "save_memory" ->
             save_memory(args.session_id, args.memory_type, args.content, net)
      [] tool = "recall_memory" ->
             recall_memory(table, args.session_id, Get(args, "memory_type", None), net)

\* the memories table after the call
MemoriesAfterCall(tool, args, table, t, net) ==
    IF tool = "save_memory"
    THEN MemoriesAfterSave(table, args.session_id, args.memory_type, args.content, t, net)
    ELSE table

\* the clock after the call: it moves on when save_memory stored a row
NowAfterCall(tool, t, net) ==
    IF tool = "save_memory" /\ env.supabase /\ net.kind # "raise" THEN t + 1 ELSE t

\* whether awaiting the adapter suspends the request: the memory adapters use the
\* synchronous storage client, and a missing key returns before any await
Suspends(tool) ==
    \/ tool = "fetch_webpage"
    \/ tool \in {"web_search", "image_search", "youtube_search"} /\ env.serper
    \/ tool = "news_search" /\ env.gnews

(***************************************************************************)
(* chat_message: the pure parts of the tool-dispatch loop                  *)
(***************************************************************************)
WindowSize == 20       \* context[-20:]
ShownItems == 3        \* [:3] of the fallback summaries

Null == [null |-> TRUE]         \* Python None where a dict is expected

System == [role |-> "system", content |-> <<"system prompt">>]

\* str(uuid.uuid4()): an id no earlier request or stored row carries
Uuid4(r) == Tag("uuid-", r)

\* request.session_id or str(uuid.uuid4())
SessionOf(sid_in, r) == IF sid_in \in {None, ""} THEN Uuid4(r) ELSE sid_in

\* lines 508-551: system prompt, the last 20 context messages, the user message
Window(context, user_message) ==
    <<System>> \o LastN(context, WindowSize) \o <<user_message>>

\* assistant_message.get("tool_calls") is truthy
ToolCallsOf(message) == Get(message, "tool_calls", <<>>)

\* a variant that honours the last tool call of the response
LastToolCall(tool_calls) == tool_calls[Len(tool_calls)]

\* line 569: tool_call = assistant_message["tool_calls"][0]
FirstToolCall(tool_calls) == tool_calls[1]

\* lines 576-577: the session id is injected for the memory tools
InjectSession(tool_name, tool_args, session_id) ==
    IF tool_name \in MemoryTools
    THEN DictSet(tool_args, "session_id", session_id)
    ELSE tool_args

\* the concatenation of a list of texts
RECURSIVE JoinAll(_)
JoinAll(texts) ==
    IF texts = <<>> THEN <<>> ELSE Head(texts) \o JoinAll(Tail(texts))

Lines(items, Line(_)) == JoinAll([i \in 1..Len(items) |-> Line(items[i])])

\* line 598: the second reply is empty or looks like leaked tool markup
LooksLeaked(final_content) ==
    \/ Falsy(final_content)
    \/ Contains(final_content, "[") /\ Contains(final_content, "TOOL:")
    \/ Contains(final_content, "_search")

\* lines 600-635: the summary synthesized from the tool result
Summary(tool_name, tool_result) ==
    IF Get(tool_result, "success", FALSE)
    THEN CASE tool_name = "youtube_search" ->
                  LET videos == Get(tool_result, "videos", <<>>)
                  IN  IF videos # <<>>
                      THEN <<"Here are some YouTube videos I found:">> \o
                           Lines(FirstN(videos, ShownItems),
                                 LAMBDA v : <<"*", v.title, "by", v.channel>>)
                      ELSE <<"I couldn't find any YouTube videos matching your search.">>
           [] tool_name = "news_search" ->
                  LET articles == Get(tool_result, "articles", <<>>)
                  IN  IF articles # <<>>
                      THEN <<"I found", ToString(Len(articles)), "recent news articles:">> \o
                           Lines(FirstN(articles, ShownItems),
                                 LAMBDA a : <<"*", a.title, "Published:", a.publishedAt,
                                              "Source:", a.source>>)
                      ELSE <<"No recent news articles found for your query.">>
           [] tool_name = "image_search" ->
                  LET images == Get(tool_result, "images", <<>>)
                  IN  <<"I found", ToString(Len(images)),
                        "images matching your search. They should appear below.">>
           [] tool_name = "web_search" ->
                  LET results == Get(tool_result, "results", <<>>)
                  IN  IF results # <<>>
                      THEN <<"Here's what I found:">> \o
                           Lines(FirstN(results, ShownItems),
                                 LAMBDA x : <<"*", x.title, x.snippet>>)
                      ELSE <<"No search results found.">>
           [] OTHER -> <<"I've completed your request successfully.">>
    ELSE <<"I encountered an error:">> \o Get(tool_result, "error", <<"Unknown error">>)

\* lines 595-635: the reply after the second model call
AfterSecondCall(final_content, tool_name, tool_result) ==
    IF LooksLeaked(final_content) THEN Summary(tool_name, tool_result) ELSE final_content

\* line 638: the reasoning trace is cut out and the rest stripped
Cleaned(final_content) == Strip(StripThink(OrEmpty(final_content)))

\* a variant that only looks for a leaked search call
NeedsFallbackMarkupOnly(final_content) ==
    Contains(final_content, "[") /\ Contains(final_content, "_search:")

\* line 641: the cleaned reply is empty or looks like a leaked search call
NeedsFallback(final_content) ==
    \/ Falsy(final_content)
    \/ Contains(final_content, "[") /\ Contains(final_content, "_search:")

\* lines 642-664: the short summary, built after the strip of line 638
ShortSummary(tool_used, tool_result_data) ==
    IF tool_result_data # Null /\ Get(tool_result_data, "success", FALSE)
    THEN CASE tool_used = "youtube_search" ->
                  LET videos == Get(tool_result_data, "videos", <<>>)
                  IN  IF videos # <<>>
                      THEN <<"I found", ToString(Len(videos)), "YouTube videos:">> \o
                           Lines(FirstN(videos, ShownItems), LAMBDA v : <<"*", v.title>>)
                           \o <<" ">>    \* lines 648-649: the last line ends in "\n"
                      ELSE <<"I couldn't find any videos matching your search.">>
           [] tool_used = "image_search" ->
                  <<"I found", ToString(Len(Get(tool_result_data, "images", <<>>))),
                    "images for your search.">>
           [] tool_used = "news_search" ->
                  <<"I found", ToString(Len(Get(tool_result_data, "articles", <<>>))),
                    "recent news articles.">>
           [] tool_used = "web_search" ->
                  <<"I found", ToString(Len(Get(tool_result_data, "results", <<>>))),
                    "search results.">>
           [] OTHER -> <<"I completed the search successfully.">>
    ELSE <<"I encountered an issue processing your request.">>

\* a variant without the second fallback
FinalTextNoFallback(final_content, tool_used, tool_result_data) ==
    Cleaned(final_content)

\* lines 638-664: the text returned and stored
FinalText(final_content, tool_used, tool_result_data) ==
    LET cleaned == Cleaned(final_content)
    IN  IF NeedsFallback(cleaned)
        THEN ShortSummary(tool_used, tool_result_data)
        ELSE cleaned

(***************************************************************************)
(* Inputs: what the network, the storage service and callers may supply    *)
(***************************************************************************)
MaxItems == 6          \* bound: items in a search provider's response
MaxMemories == 12      \* bound: rows saved in the memories table
MaxOther == 1          \* bound: of those, rows not of session "s1" and type "fact"

ErrTexts == {<<>>, <<"timed out">>}
NetRaise == {[kind |-> "raise", err |-> e] : e \in ErrTexts}
NetBody(statuses, jsons, ns) ==
    {[kind |-> "body", status |-> st, json |-> j, n |-> n] :
        st \in statuses, j \in jsons, n \in ns}
NetOk(n) == [kind |-> "body", status |-> 200, json |-> "object", n |-> n]

\* outcomes of an adapter's outbound call
NetOutcomes(tool) ==
    IF tool \in SearchTools
    THEN NetRaise \cup NetBody({200, 500}, {"object"}, 0..MaxItems)
                  \cup NetBody({200, 500}, {"other", "invalid"}, {0})
    ELSE IF tool = "fetch_webpage"
         THEN NetRaise \cup NetBody({200, 404}, {"invalid"}, {0})
         ELSE NetRaise \cup {NetOk(0)}

SessionIds == {"s1", "s2"}
MemTypes == {"fact", "pref"}

\* keyword arguments a caller passes to an adapter
DirectArgs(tool) ==
    CASE tool \in SearchTools \ {"news_search"} -> {[query |-> "rust vs go"]}
      [] tool = "news_search" ->
             {[query |-> "rust vs go"], [query |-> "rust vs go", country |-> "in"]}
      [] tool = "fetch_webpage" -> {[url |-> "https://example.org"]}
      [] tool = "save_memory" ->
             {[session_id |-> s, memory_type |-> t, content |-> "note"] :
                 s \in SessionIds, t \in MemTypes}
      [] tool = "recall_memory" ->
             {[session_id |-> s] : s \in SessionIds} \cup
             {[session_id |-> s, memory_type |-> t] :
                 s \in SessionIds, t \in MemTypes \cup {None, ""}}

(***************************************************************************)
(* What the model may answer                                               *)
(***************************************************************************)
MaxTextLen == 2        \* bound: pieces in a model reply

\* the pieces replies are written with
Tokens == {<<"ok">>, <<" ">>} \cup
          {Chars(pat) : pat \in {"[", "TOOL:", "_search", "_search:", "<think>", "</think>"}}

\* a literal of the code cut in two by a reasoning span
SplitTexts ==
    {pre \o SubSeq(Chars(pat), 1, k) \o Chars("<think>") \o inner \o Chars("</think>")
         \o SubSeq(Chars(pat), k + 1, Len(Chars(pat))) :
         pre \in {<<>>, <<"[">>}, inner \in {<<>>, <<"x">>},
         pat \in {"TOOL:", "_search:", "<think>"}, k \in {1, 4}}

Texts == {JoinAll(pieces) : pieces \in UNION {[1..n -> Tokens] : n \in 0..MaxTextLen}}
         \cup SplitTexts

\* the content part of a message: no key, null, or a text
ContentParts(texts) == {<<>>} \cup {[content |-> t] : t \in texts \cup {NoneText}}

ObjectArgs(value) == [json |-> "object", value |-> value]
InvalidArgs == [json |-> "invalid"]
OtherArgs == [json |-> "other"]

ToolCall(name, arguments) ==
    [id |-> "call_1", function |-> [name |-> name, arguments |-> arguments]]
ToolCallNoId(name, arguments) ==
    [function |-> [name |-> name, arguments |-> arguments]]

\* argument objects that bind to the adapter once the session id is injected
GoodArgs(name) ==
    CASE name \in SearchTools \ {"news_search"} -> {[query |-> "rust vs go"]}
      [] name = "news_search" ->
             {[query |-> "rust vs go"], [query |-> "rust vs go", country |-> "in"]}
      [] name = "fetch_webpage" -> {[url |-> "https://example.org"]}
      [] name = "save_memory" ->
             {[memory_type |-> "fact", content |-> "note"],
              [session_id |-> "s2", memory_type |-> "pref", content |-> "note"]}
      [] name = "recall_memory" -> {<<>>, [memory_type |-> "fact"], [memory_type |-> ""]}

\* argument objects that do not
BadArgs(name) ==
    CASE name \in SearchTools -> {<<>>, [query |-> "rust vs go", session_id |-> "s1"]}
      [] name = "fetch_webpage" -> {<<>>}
      [] name = "save_memory" -> {[memory_type |-> "fact"]}
      [] name = "recall_memory" -> {[query |-> "rust vs go"]}

Unregistered == {"code_execution", "calculator"}

\* a second tool call in the same response
ExtraCall == ToolCall("fetch_webpage", ObjectArgs([url |-> "https://example.org"]))

\* first responses of the model: no tool call; an unregistered tool; a registered
\* tool with arguments of every kind; a call without id; several calls
FirstMessages(texts) ==
    LET plain == {c @@ t : c \in ContentParts(texts), t \in {<<>>, [tool_calls |-> <<>>]}}
        unknown == {c @@ [tool_calls |-> <<ToolCall(n, a)>>] :
                       c \in ContentParts(texts), n \in Unregistered,
                       a \in {ObjectArgs(<<>>), InvalidArgs, OtherArgs}}
        known == UNION {
                   {[tool_calls |-> <<ToolCall(n, a)>>] :
                       a \in {ObjectArgs(v) : v \in GoodArgs(n) \cup BadArgs(n)}
                             \cup {InvalidArgs, OtherArgs}}
                   \cup {[tool_calls |-> <<ToolCallNoId(n, ObjectArgs(v))>>] : v \in GoodArgs(n)}
                   \cup {[content |-> <<"ok">>,
                          tool_calls |-> <<ToolCall(n, ObjectArgs(v))>> \o more] :
                            v \in GoodArgs(n), more \in {<<ExtraCall>>, <<ExtraCall, ExtraCall>>}}
                   : n \in TOOL_IMPLEMENTATIONS}
    IN  plain \cup unknown \cup known

Responses(messages) == {[ok |-> FALSE]} \cup {[ok |-> TRUE, message |-> m] : m \in messages}

AllNets == UNION {NetOutcomes(t) : t \in TOOL_IMPLEMENTATIONS}

(***************************************************************************)
(* chat_message as steps.  A request runs without interruption between     *)
(* two awaits; pc names the await it is suspended at:                      *)
(*   "llm1"  the first call_llm      "tool"  the adapter's outbound call   *)
(*   "llm2"  the second call_llm     "done"  the response has been sent    *)
(* events, window, fresh, after_clear and second are history fields of a   *)
(* request.                                                                *)
(***************************************************************************)
Quiet == UNCHANGED <<env, last_get, last_call, log, nadds>>
NoClear == UNCHANGED <<cleared, nclears>>

InFlight(session_id) ==
    \E r \in DOMAIN req : req[r].session_id = session_id /\ req[r].pc # "done"

\* a storage write may fail while the budget of environment events lasts
WriteOutcome(write_ok) ==
    /\ write_ok \/ (env.supabase /\ ndisturb < MaxDisturb)
    /\ ndisturb' = IF write_ok THEN ndisturb ELSE ndisturb + 1

\* lines 676-678: any exception ends the request with HTTP 500
Fail(r, rec, detail) ==
    req' = DictSet(req, r, [rec EXCEPT !.pc = "done", !.status = 500, !.detail = detail])

\* lines 638-674: the final text is stored and returned with HTTP 200
Complete(r, rec, final_content, write_ok) ==
    LET final == FinalText(final_content, rec.tool_used, rec.tool_result_data)
    IN  /\ WriteOutcome(write_ok)
        /\ AddMessage(rec.session_id,
                      [role |-> "assistant", content |-> final, turn |-> r], write_ok)
        /\ req' = DictSet(req, r, [rec EXCEPT !.pc = "done", !.status = 200,
                                              !.response = final])

\* lines 502-560: up to the first await
ChatStart(r, sid_in, message, read_ok, write_ok) ==
    /\ r = nturns + 1
    /\ LET session_id == SessionOf(sid_in, r)
           g == GetContext(sessions, chat_history, session_id, read_ok)
           user_message == [role |-> "user", content |-> message, turn |-> r]
           messages == Window(g.ret, user_message)
           was_cleared == session_id \in DOMAIN cleared
       IN  /\ read_ok \/ (env.supabase /\ session_id \notin DOMAIN sessions)
           /\ WriteOutcome(write_ok)
           /\ sessions' = CacheAppend(g.sessions, session_id, user_message)
           /\ chat_history' = InsertHistory(chat_history, session_id, user_message,
                                            now, write_ok)
           /\ now' = IF env.supabase /\ write_ok THEN now + 1 ELSE now
           /\ req' = DictSet(req, r,
                  [pc |-> "llm1", session_id |-> session_id, message |-> message,
                   messages |-> messages, window |-> messages,
                   fresh |-> was_cleared /\ cleared[session_id].ok
                                         /\ cleared[session_id].clean
                                         /\ cleared[session_id].pending,
                   after_clear |-> was_cleared /\ cleared[session_id].ok
                                               /\ cleared[session_id].pending
                                               /\ ~InFlight(session_id),
                   assistant_message |-> Null, tool_call |-> Null, tool_name |-> None,
                   tool_args |-> Null, tool_used |-> None, tool_result_data |-> Null,
                   second |-> Null, events |-> <<[e |-> "llm", tools |-> TRUE]>>,
                   status |-> 0, response |-> <<>>, detail |-> ""])
           /\ cleared' = IF was_cleared
                         THEN [cleared EXCEPT ![session_id].pending = FALSE]
                         ELSE cleared
    /\ nturns' = nturns + 1
    /\ UNCHANGED <<memories, nclears>>
    /\ Quiet

\* lines 568-583: what the first response makes the loop do
Dispatch(message, session_id) ==
    LET tool_calls == ToolCallsOf(message)
    IN  IF tool_calls = <<>> THEN [kind |-> "reply", tool_used |-> None]
        ELSE LET tool_call == FirstToolCall(tool_calls)
                 tool_name == tool_call.function.name
                 arguments == tool_call.function.arguments
             IN  IF arguments.json = "invalid"
                 THEN [kind |-> "raise", detail |-> "json.loads(arguments)"]
                 ELSE IF tool_name \in MemoryTools /\ arguments.json # "object"
                 THEN [kind |-> "raise", detail |-> "tool_args['session_id'] = session_id"]
                 ELSE IF tool_name \notin TOOL_IMPLEMENTATIONS
                 THEN [kind |-> "reply", tool_used |-> tool_name]
                 ELSE IF \/ arguments.json # "object"
                         \/ ~Binds(tool_name,
                                   InjectSession(tool_name, arguments.value, session_id))
                 THEN [kind |-> "raise", detail |-> "func(tool_args)"]
                 ELSE [kind |-> IF Suspends(tool_name) THEN "await" ELSE "inline",
                       tool_used |-> tool_name, tool_call |-> tool_call,
                       tool_args |-> InjectSession(tool_name, arguments.value, session_id)]

\* lines 582-594: the adapter has returned; up to the second await
RunTool(r, rec, net) ==
    LET tool_result == CallTool(rec.tool_name, rec.tool_args, memories, net)
        ran == [rec EXCEPT !.tool_result_data = tool_result,
                           !.events = Append(@, [e |-> "tool", name |-> rec.tool_name])]
    IN  /\ memories' = MemoriesAfterCall(rec.tool_name, rec.tool_args, memories, now, net)
        /\ now' = NowAfterCall(rec.tool_name, now, net)
        /\ IF "id" \notin DOMAIN rec.tool_call
           THEN Fail(r, ran, "tool_call['id']")
           ELSE req' = DictSet(req, r,
                    [ran EXCEPT !.pc = "llm2",
                                !.messages = @ \o <<rec.assistant_message,
                                    [role |-> "tool", tool_call_id |-> rec.tool_call.id,
                                     content |-> tool_result]>>,
                                !.events = Append(@, [e |-> "llm", tools |-> FALSE])])
        /\ UNCHANGED <<sessions, chat_history, ndisturb>>

\* the first call_llm returns (resp.ok = FALSE: it raises, or has no choices)
LlmFirstReturn(r, resp) ==
    /\ r \in DOMAIN req /\ req[r].pc = "llm1"
    /\ IF ~resp.ok
       THEN /\ Fail(r, req[r], "call_llm")
            /\ UNCHANGED <<sessions, chat_history, memories, now, ndisturb>>
       ELSE LET d == Dispatch(resp.message, req[r].session_id)
                rec == [req[r] EXCEPT !.assistant_message = resp.message,
                                      !.tool_used = Get(d, "tool_used", None)]
            IN  CASE d.kind = "raise" ->
                       /\ Fail(r, rec, d.detail)
                       /\ UNCHANGED <<sessions, chat_history, memories, now, ndisturb>>
                  [] d.kind = "reply" ->
                       /\ \E write_ok \in BOOLEAN :
                              Complete(r, rec, Get(resp.message, "content", <<>>), write_ok)
                       /\ UNCHANGED memories
                  [] d.kind = "await" ->
                       /\ req' = DictSet(req, r,
                              [rec EXCEPT !.pc = "tool", !.tool_call = d.tool_call,
                                          !.tool_name = d.tool_used,
                                          !.tool_args = d.tool_args])
                       /\ UNCHANGED <<sessions, chat_history, memories, now, ndisturb>>
                  [] d.kind = "inline" ->
                       \E net \in NetOutcomes(d.tool_used) :
                           RunTool(r, [rec EXCEPT !.tool_call = d.tool_call,
                                                  !.tool_name = d.tool_used,
                                                  !.tool_args = d.tool_args], net)
    /\ UNCHANGED nturns /\ NoClear
    /\ Quiet

\* the adapter's outbound call ends
ToolReturn(r, net) ==
    /\ r \in DOMAIN req /\ req[r].pc = "tool"
    /\ net \in NetOutcomes(req[r].tool_name)
    /\ RunTool(r, req[r], net)
    /\ UNCHANGED nturns /\ NoClear
    /\ Quiet

\* the second call_llm returns
LlmSecondReturn(r, resp) ==
    /\ r \in DOMAIN req /\ req[r].pc = "llm2"
    /\ IF ~resp.ok
       THEN /\ Fail(r, req[r], "call_llm")
            /\ UNCHANGED <<sessions, chat_history, now, ndisturb>>
       ELSE LET rec == [req[r] EXCEPT !.second = resp.message]
                final_content == Get(resp.message, "content", <<>>)
            IN  \E write_ok \in BOOLEAN :
                    Complete(r, rec,
                             AfterSecondCall(final_content, rec.tool_name,
                                             rec.tool_result_data),
                             write_ok)
    /\ UNCHANGED <<memories, nturns>> /\ NoClear
    /\ Quiet

\* a variant of the storage delete that leaves the rows in place
HistoryAfterClearKept(table, session_id, db_ok) == table

\* line 714: delete().eq("session_id", session_id); db_ok = FALSE: it raises
HistoryAfterClear(table, session_id, db_ok) ==
    IF env.supabase /\ db_ok THEN table \ RowsOf(table, session_id) ELSE table

\* DELETE /chat/history/{session_id}
ClearHistory(session_id, db_ok) ==
    /\ WriteOutcome(db_ok)
    /\ sessions' = IF session_id \in DOMAIN sessions
                   THEN DictDel(sessions, session_id) ELSE sessions
    /\ chat_history' = HistoryAfterClear(chat_history, session_id, db_ok)
    /\ cleared' = DictSet(cleared, session_id,
           [ok |-> db_ok, clean |-> ~InFlight(session_id), pending |-> TRUE,
            turn |-> nturns,
            had |-> \/ session_id \in DOMAIN sessions /\ sessions[session_id] # <<>>
                    \/ RowsOf(chat_history, session_id) # {}])
    /\ nclears' = nclears + 1
    /\ UNCHANGED <<memories, now, req, nturns>>
    /\ Quiet

(***************************************************************************)
(* Direct adapter calls (specifications SpecTools and SpecMem)             *)
(***************************************************************************)
DirectCall(tool, args, net) ==
    /\ Binds(tool, args)
    /\ last_call' = [kind |-> "call", tool |-> tool, args |-> args, net |-> net,
                     result |-> CallTool(tool, args, memories, net)]
    /\ memories' = MemoriesAfterCall(tool, args, memories, now, net)
    /\ now' = NowAfterCall(tool, now, net)
    /\ UNCHANGED <<env, sessions, chat_history, chatvars, last_get, log, nadds, ndisturb>>

\* rows that are not of the session and type the long runs are made of
OtherRows(table) == {r \in table : r.session_id # "s1" \/ r.memory_type # "fact"}

SaveAllowed(args) ==
    /\ Cardinality(memories) < MaxMemories
    /\ \/ args.session_id = "s1" /\ args.memory_type = "fact"
       \/ Cardinality(OtherRows(memories)) < MaxOther

(***************************************************************************)
(* Direct use of the ContextManager (specification SpecCtx)                *)
(***************************************************************************)
\* message texts are pairwise distinct here: each is its serial number
\* and user and assistant messages alternate, as chat turns produce them
RoleOf(n) == IF n % 2 = 1 THEN "user" ELSE "assistant"

CtxAddMessage(s, db_ok) ==
    /\ nadds < MaxAdds
    /\ db_ok \/ (env.supabase /\ ndisturb < MaxDisturb)
    /\ AddMessage(s, [role |-> RoleOf(nadds + 1), content |-> nadds + 1, turn |-> 0], db_ok)
    /\ nadds' = nadds + 1
    /\ ndisturb' = IF db_ok THEN ndisturb ELSE ndisturb + 1
    /\ log' = [log EXCEPT ![s] = Append(@, nadds + 1)]
    /\ last_get' = NoCall
    /\ UNCHANGED <<env, memories, chatvars, last_call>>

CtxGetContext(s, db_ok) ==
    /\ db_ok \/ (env.supabase /\ s \notin DOMAIN sessions)
    /\ LET g == GetContext(sessions, chat_history, s, db_ok)
       IN  /\ sessions' = g.sessions
           /\ last_get' = [kind |-> "get", session_id |-> s,
                           hit |-> s \in DOMAIN sessions,
                           read |-> g.read, db_ok |-> db_ok, ret |-> g.ret]
    /\ UNCHANGED <<env, chat_history, memories, now, chatvars, last_call, log, nadds, ndisturb>>

\* a new process: ContextManager() starts with an empty cache, storage stays
Restart ==
    /\ ndisturb < MaxDisturb
    /\ sessions # <<>>
    /\ sessions' = <<>>
    /\ log' = [s \in DOMAIN log |-> <<>>]
    /\ ndisturb' = ndisturb + 1
    /\ last_get' = NoCall
    /\ UNCHANGED <<env, chat_history, memories, now, chatvars, last_call, nadds>>

\* another process's add_message: a row this process's cache never saw
ForeignWrite(s) ==
    /\ env.supabase
    /\ ndisturb < MaxDisturb
    /\ nadds < MaxAdds
    /\ chat_history' = chat_history \cup
           {[session_id |-> s, role |-> RoleOf(nadds + 1), content |-> nadds + 1,
             created_at |-> now, turn |-> 0]}
    /\ now' = now + 1
    /\ nadds' = nadds + 1
    /\ ndisturb' = ndisturb + 1
    /\ last_get' = NoCall
    /\ UNCHANGED <<env, sessions, memories, chatvars, last_call, log>>

\* the state after import: an empty cache; storage holds nothing yet
InitState(envs) ==
    /\ env \in envs
    /\ sessions = <<>>
    /\ chat_history = {}
    /\ memories = {}
    /\ now = 1
    /\ req = <<>>
    /\ nturns = 0
    /\ cleared = <<>>
    /\ nclears = 0
    /\ last_get = NoCall
    /\ last_call = NoCall
    /\ log = [s \in CtxSessions |-> <<>>]
    /\ nadds = 0
    /\ ndisturb = 0

AllEnvs == [supabase : BOOLEAN, serper : BOOLEAN, gnews : BOOLEAN]

InitCtx == InitState({e \in AllEnvs : e.serper /\ e.gnews})

NextCtx ==
    \/ \E s \in CtxSessions, db_ok \in BOOLEAN : CtxAddMessage(s, db_ok)
    \/ \E s \in CtxSessions, db_ok \in BOOLEAN : CtxGetContext(s, db_ok)
    \/ Restart
    \/ \E s \in CtxSessions : ForeignWrite(s)

SpecCtx == InitCtx /\ [][NextCtx]_vars

InitTools == InitState(AllEnvs)

NextTools ==
    \E tool \in TOOL_IMPLEMENTATIONS :
        \E args \in DirectArgs(tool), net \in NetOutcomes(tool) :
            /\ tool = "save_memory" => memories = {}
            /\ DirectCall(tool, args, net)

SpecTools == InitTools /\ [][NextTools]_vars

InitMem == InitState({e \in AllEnvs : e.supabase /\ e.serper /\ e.gnews})

MemSave(args, net) ==
    /\ SaveAllowed(args)
    /\ DirectCall("save_memory", args, net)

MemRecall(args, net) == DirectCall("recall_memory", args, net)

NextMem ==
    \/ \E args \in DirectArgs("save_memory"), net \in NetOutcomes("save_memory") :
           MemSave(args, net)
    \/ \E args \in DirectArgs("recall_memory"), net \in NetOutcomes("recall_memory") :
           MemRecall(args, net)

SpecMem == InitMem /\ [][NextMem]_vars

(***************************************************************************)
(* One chat turn with every model answer (specification SpecTurn)          *)
(***************************************************************************)
OneMissing == {e \in AllEnvs : Cardinality({k \in DOMAIN e : ~e[k]}) <= 1}

InitTurn == InitState(OneMissing)

FirstResponses == Responses(FirstMessages(Texts))
SecondResponses == Responses(ContentParts(Texts))

At(r, pc) == r \in DOMAIN req /\ req[r].pc = pc

NextTurn ==
    \/ \E sid_in \in {"s1", None}, read_ok, write_ok \in BOOLEAN :
           ChatStart(1, sid_in, <<"hello">>, read_ok, write_ok)
    \/ At(1, "llm1") /\ \E resp \in FirstResponses : LlmFirstReturn(1, resp)
    \/ At(1, "tool") /\ \E net \in AllNets : ToolReturn(1, net)
    \/ At(1, "llm2") /\ \E resp \in SecondResponses : LlmSecondReturn(1, resp)

SpecTurn == InitTurn /\ [][NextTurn]_vars

(***************************************************************************)
(* The service: several chat requests, possibly overlapping, and DELETE    *)
(* (specification Spec)                                                    *)
(***************************************************************************)
MaxTurns == 3          \* bound: chat requests in one behaviour
MaxInFlight == 2       \* bound: chat requests suspended at the same time

MaxClears == 1         \* bound: DELETE requests in one behaviour

ServiceFirst ==
    Responses({[content |-> <<"ok">>],
               [tool_calls |-> <<ToolCall("web_search", ObjectArgs([query |-> "rust vs go"]))>>]})
ServiceSecond == {[ok |-> TRUE, message |-> [content |-> <<>>]]}
ServiceNets == {NetOk(2), [kind |-> "raise", err |-> <<"timed out">>]}

Suspended == {r \in DOMAIN req : req[r].pc # "done"}

Init == InitState({e \in AllEnvs : e.serper /\ e.gnews})

Next ==
    \/ /\ nturns < MaxTurns
       /\ Cardinality(Suspended) < MaxInFlight
       /\ \E sid_in \in SessionIds, read_ok, write_ok \in BOOLEAN :
              ChatStart(nturns + 1, sid_in, <<"hi">>, read_ok, write_ok)
    \/ \E r \in DOMAIN req :
           At(r, "llm1") /\ \E resp \in ServiceFirst : LlmFirstReturn(r, resp)
    \/ \E r \in DOMAIN req :
           At(r, "tool") /\ \E net \in ServiceNets : ToolReturn(r, net)
    \/ \E r \in DOMAIN req :
           At(r, "llm2") /\ \E resp \in ServiceSecond : LlmSecondReturn(r, resp)
    \/ /\ nclears < MaxClears
       /\ \E session_id \in SessionIds, db_ok \in BOOLEAN : ClearHistory(session_id, db_ok)

Spec == Init /\ [][Next]_vars

(***************************************************************************)
(* Properties of the ContextManager, checked under SpecCtx                 *)
(***************************************************************************)
Min(a, b) == IF a <= b THEN a ELSE b
ContentsOf(list) == [i \in 1..Len(list) |-> list[i].content]
GotContext == last_get.kind = "get"

\* C1: the list get_context returns has at most 50 entries, they are in the
\* order in which they were appended, and its tail is what this process
\* appended: all of it, or exactly the last 50 once more than 50 were appended.
C1_ContextBoundedOrdered ==
    GotContext =>
        LET ret == last_get.ret
            appended == log[last_get.session_id]
            k == Min(Len(appended), MaxContext)
        IN  /\ Len(ret) <= MaxContext
            /\ \A i, j \in 1..Len(ret) : i < j => ret[i].content < ret[j].content
            /\ Len(ret) >= k
            /\ LastN(ContentsOf(ret), k) = LastN(appended, k)
            /\ Len(appended) > MaxContext => ContentsOf(ret) = LastN(appended, MaxContext)

\* C1 witness: get_context after more than 50 messages were appended
C1_Witness ==
    /\ GotContext
    /\ Len(log[last_get.session_id]) > MaxContext
    /\ Len(last_get.ret) = MaxContext

\* C8: a get_context that finds the session cached returns the cached list and
\* does not read storage.
C8_CachedIsSourceOfTruth ==
    (GotContext /\ last_get.hit) =>
        /\ ~last_get.read
        /\ last_get.ret = sessions[last_get.session_id]

\* C8 witness: a cached read that returns a list storage no longer agrees with
C8_Witness ==
    /\ GotContext /\ last_get.hit /\ env.supabase
    /\ last_get.ret # HistoryOf(chat_history, last_get.session_id)
    /\ \E r \in RowsOf(chat_history, last_get.session_id) :
           \A i \in 1..Len(last_get.ret) : last_get.ret[i].content # r.content

\* the newest 50 stored messages of a session, oldest of them first
NewestStored(table, session_id) ==
    LET data == LastN(OrderAsc(RowsOf(table, session_id)), MaxContext)
    IN  [i \in 1..Len(data) |-> RowToMsg(data[i])]

\* C9: a get_context that misses the cache and reads storage returns the most
\* recent 50 stored messages of the session in ascending creation order.
C9_LoadsNewestFifty ==
    (GotContext /\ ~last_get.hit /\ last_get.read /\ last_get.db_ok) =>
        last_get.ret = NewestStored(chat_history, last_get.session_id)

(***************************************************************************)
(* Properties of the adapters, checked under SpecTools and SpecMem         *)
(***************************************************************************)
Called == last_call.kind = "call"

\* the underlying call of the latest adapter call failed
MissingConfig(tool) ==
    \/ tool \in {"web_search", "image_search", "youtube_search"} /\ ~env.serper
    \/ tool = "news_search" /\ ~env.gnews
    \/ tool \in MemoryTools /\ ~env.supabase

CallFailed ==
    /\ Called
    /\ \/ MissingConfig(last_call.tool)
       \/ last_call.net.kind = "raise"
       \/ last_call.net.kind = "body" /\ last_call.net.status \notin 200..299

ErrorShape(result) ==
    /\ {"success", "error"} \subseteq DOMAIN result
    /\ result.success = FALSE

\* C3: on every failure mode of its underlying call an adapter returns
\* an object with success = false and an error string.
C3_UniformErrorShape == CallFailed => ErrorShape(last_call.result)

Recalled ==
    /\ Called /\ last_call.tool = "recall_memory"
    /\ Get(last_call.result, "success", FALSE)

RecallTag == Get(last_call.args, "memory_type", None)

\* the stored records a recall with a given tag is about
Matching(tag_given) ==
    {r \in memories : /\ r.session_id = last_call.args.session_id
                      /\ tag_given => r.memory_type = RecallTag}

\* the recall returned the (at most 10) most recent records of M, newest first
MostRecentOf(M) ==
    LET data == last_call.result.memories
        got == {data[i] : i \in 1..Len(data)}
    IN  /\ Len(data) = Min(Cardinality(M), RecallLimit)
        /\ last_call.result.total = Len(data)
        /\ got \subseteq M
        /\ \A i, j \in 1..Len(data) : i < j => data[i].created_at > data[j].created_at
        /\ \A r \in got, q \in M \ got : q.created_at < r.created_at

\* C7 as amended: recall_memory returns the at most 10 most recent records of
\* the session, newest first, restricted to the type tag when a non-empty tag
\* is supplied (an empty tag selects every type, like no tag).
C7_RecallMostRecent == Recalled => MostRecentOf(Matching(Truthy(RecallTag)))

\* C7 witness: a tagged recall that had to cut to 10 and to skip a newer
\* record of another type
C7_Witness ==
    /\ Recalled /\ Truthy(RecallTag)
    /\ Cardinality(Matching(TRUE)) > RecallLimit
    /\ \E q \in memories, i \in 1..Len(last_call.result.memories) :
           /\ q.session_id = last_call.args.session_id
           /\ q.memory_type # RecallTag
           /\ q.created_at > last_call.result.memories[i].created_at

\* C7 as stated: whenever a tag is supplied, the empty tag included, only
\* records carrying that tag are returned.
C7_AnySuppliedTagFilters ==
    (Recalled /\ "memory_type" \in DOMAIN last_call.args /\ RecallTag # None) =>
        MostRecentOf(Matching(TRUE))

(***************************************************************************)
(* Properties of DELETE followed by POST, checked under Spec               *)
(***************************************************************************)
Finished(r) == req[r].pc = "done"
Answered(r) == Finished(r) /\ req[r].status = 200

\* the latest DELETE of the session succeeded with no chat request of the
\* session in flight: every earlier turn on it had completed
CleanlyCleared(session_id) ==
    /\ session_id \in DOMAIN cleared
    /\ cleared[session_id].ok
    /\ cleared[session_id].clean

\* C2: the POST that follows a DELETE of its session sends the model only the
\* system prompt and the new user message, and from the DELETE on neither the
\* cache nor chat_history holds a message of a turn from before the DELETE.
C2_PostAfterDeleteStartsEmpty ==
    /\ \A r \in DOMAIN req :
           req[r].fresh =>
               req[r].window =
                   <<System, [role |-> "user", content |-> req[r].message, turn |-> r]>>
    /\ \A s \in SessionIds :
           CleanlyCleared(s) =>
               /\ s \in DOMAIN sessions =>
                      \A i \in 1..Len(sessions[s]) : sessions[s][i].turn > cleared[s].turn
               /\ \A row \in RowsOf(chat_history, s) : row.turn > cleared[s].turn

\* C2 witness: a turn answered after the DELETE of a session that had history,
\* with storage configured
C2_Witness ==
    \E r \in DOMAIN req :
        /\ Answered(r) /\ req[r].fresh /\ env.supabase
        /\ cleared[req[r].session_id].had
        /\ cleared[req[r].session_id].turn >= 1
        /\ Len(sessions[req[r].session_id]) = 2
        /\ Cardinality(RowsOf(chat_history, req[r].session_id)) = 2

(***************************************************************************)
(* Properties of one chat turn, checked under SpecTurn                     *)
(***************************************************************************)
ToolEvents(r) == SelectSeq(req[r].events, LAMBDA e : e.e = "tool")
ModelEvents(r) == SelectSeq(req[r].events, LAMBDA e : e.e = "llm")

\* the adapter ran and reported an error (either error shape)
ToolFailed(r) ==
    /\ req[r].tool_result_data # Null
    /\ ~Get(req[r].tool_result_data, "success", FALSE)

SecondContent(r) == Get(req[r].second, "content", <<>>)

\* C4: once the adapter of a registered tool has reported an error, the request
\* ends with HTTP 200 and a non-empty text, which is the error sentence when
\* the second reply is empty or leaked markup; the only HTTP 500 left are the
\* second model call failing and a tool call without id, not the tool failure.
C4_ToolFailureStillAnswered ==
    \A r \in DOMAIN req :
        (Finished(r) /\ ToolFailed(r)) =>
            \/ /\ req[r].status = 200
               /\ req[r].response # <<>>
               /\ (req[r].second # Null /\ LooksLeaked(SecondContent(r))) =>
                      req[r].response[1] = "I encountered an error:"
            \/ /\ req[r].status = 500
               /\ req[r].detail \in {"call_llm", "tool_call['id']"}

\* C4 witness: an answered turn whose tool failed and whose second reply was empty
C4_Witness ==
    \E r \in DOMAIN req :
        /\ Answered(r) /\ ToolFailed(r)
        /\ req[r].second # Null /\ Falsy(SecondContent(r))
        /\ req[r].tool_name = "web_search"
        /\ "success" \in DOMAIN req[r].tool_result_data

RequestedUnregistered(r) ==
    /\ req[r].assistant_message # Null
    /\ ToolCallsOf(req[r].assistant_message) # <<>>
    /\ ToolCallsOf(req[r].assistant_message)[1].function.name \notin TOOL_IMPLEMENTATIONS

\* C5: a first response that requests an unregistered tool ends with HTTP 200
\* and a non-empty text, no adapter run, no second model call and no tool
\* result, whatever its content and arguments are.
C5_UnregisteredToolAnswered ==
    \A r \in DOMAIN req :
        (Finished(r) /\ RequestedUnregistered(r)) =>
            /\ req[r].status = 200
            /\ req[r].response # <<>>
            /\ ToolEvents(r) = <<>>
            /\ Len(ModelEvents(r)) = 1
            /\ req[r].tool_result_data = Null

\* the second reply is one the answer is synthesized for: empty, leaked
\* tool-call markup, or nothing but a reasoning trace
Synthesized(content) ==
    \/ Falsy(content)
    \/ Contains(content, "[") /\ (Contains(content, "TOOL:") \/ Contains(content, "_search:"))
    \/ Contains(content, "<think>") /\ Cleaned(content) = <<>>

Mentions(text, token) == \E i \in 1..Len(text) : text[i] = token

\* C6: after a web_search that returned 2 results, whenever the reply is
\* synthesized, tool_used is "web_search" and the reply names both titles.
C6_WebSearchReplyNamesTitles ==
    \A r \in DOMAIN req :
        ( /\ Answered(r)
          /\ req[r].tool_name = "web_search"
          /\ Get(req[r].tool_result_data, "success", FALSE)
          /\ Get(req[r].tool_result_data, "total", 0) = 2
          /\ req[r].second # Null
          /\ Synthesized(SecondContent(r)) ) =>
            /\ req[r].tool_used = "web_search"
            /\ Mentions(req[r].response, "T1")
            /\ Mentions(req[r].response, "T2")

\* C10: in a turn the events are a prefix of: the model called with the tool
\* definitions, the adapter named by the first tool call, the model called
\* without tool definitions.
C10_OneToolThenOneSummaryCall ==
    \A r \in DOMAIN req :
        LET events == req[r].events
        IN  /\ Len(events) <= 3
            /\ events[1] = [e |-> "llm", tools |-> TRUE]
            /\ Len(events) >= 2 =>
                   events[2] = [e |-> "tool", name |->
                       ToolCallsOf(req[r].assistant_message)[1].function.name]
            /\ Len(events) = 3 => events[3] = [e |-> "llm", tools |-> FALSE]
            /\ Finished(r) /\ req[r].status = 200 => Len(events) \in {1, 3}

\* C10 witness: an answered turn whose first response held three tool calls
C10_Witness ==
    \E r \in DOMAIN req :
        /\ Answered(r)
        /\ Len(ToolCallsOf(req[r].assistant_message)) = 3
        /\ Len(req[r].events) = 3
        /\ ToolCallsOf(req[r].assistant_message)[1].function.name # "fetch_webpage"

(***************************************************************************)
(* Properties of overlapping requests, checked under Spec                  *)
(***************************************************************************)
RequestsOn(session_id) == {r \in DOMAIN req : req[r].session_id = session_id}
SessionsUsed == {req[r].session_id : r \in DOMAIN req}

UserMessageOf(r) == [role |-> "user", content |-> req[r].message, turn |-> r]
AssistantMessageOf(r) == [role |-> "assistant", content |-> req[r].response, turn |-> r]

Cached(session_id) == Get(sessions, session_id, <<>>)
PositionsOf(list, msg) == {i \in 1..Len(list) : list[i] = msg}

\* C11: on a session no DELETE has touched, whatever the interleaving of its
\* chat requests, the cache holds the user message of every request exactly
\* once, the assistant message of every answered request exactly once and
\* after that request's user message, and nothing else.
C11_NoMessageLostOrDuplicated ==
    \A s \in SessionsUsed \ DOMAIN cleared :
        LET list == Cached(s)
        IN  /\ \A r \in RequestsOn(s) :
                   /\ Cardinality(PositionsOf(list, UserMessageOf(r))) = 1
                   /\ IF Answered(r)
                      THEN /\ Cardinality(PositionsOf(list, AssistantMessageOf(r))) = 1
                           /\ \A i \in PositionsOf(list, UserMessageOf(r)),
                                 j \in PositionsOf(list, AssistantMessageOf(r)) : i < j
                      ELSE \A i \in 1..Len(list) :
                               ~(list[i].turn = r /\ list[i].role = "assistant")
            /\ Len(list) = Cardinality(RequestsOn(s))
                           + Cardinality({r \in RequestsOn(s) : Answered(r)})

\* C11 witness: two overlapping requests on one session, both answered, the
\* later one first
C11_Witness ==
    \E s \in SessionsUsed \ DOMAIN cleared :
        \E r1, r2 \in RequestsOn(s) :
            /\ r1 < r2 /\ Answered(r1) /\ Answered(r2)
            /\ Len(Cached(s)) >= 4
            /\ SubSeq(Cached(s), 1, 4) = <<UserMessageOf(r1), UserMessageOf(r2),
                                          AssistantMessageOf(r2), AssistantMessageOf(r1)>>

\* the latest DELETE of the session succeeded while a chat request of the
\* session was suspended, no POST has followed it yet, and every request of
\* the session has completed
ClearedDuringRequest(session_id) ==
    /\ session_id \in DOMAIN cleared
    /\ cleared[session_id].ok
    /\ ~cleared[session_id].clean
    /\ cleared[session_id].pending
    /\ ~InFlight(session_id)

\* C12: once a DELETE that ran during a suspended chat request of its session
\* and that request have both completed, the session has no cached and no
\* stored message, and the next POST of the session sends the model only the
\* system prompt and its own user message.
C12_ClearDuringRequestLeavesClear ==
    /\ \A s \in SessionIds :
           ClearedDuringRequest(s) =>
               /\ Cached(s) = <<>>
               /\ RowsOf(chat_history, s) = {}
    /\ \A r \in DOMAIN req :
           req[r].after_clear => req[r].window = <<System, UserMessageOf(r)>>

(***************************************************************************)
(* The text of an answered turn, checked under SpecTurn                    *)
(***************************************************************************)
FirstContent(r) == Get(req[r].assistant_message, "content", <<>>)

StoredRowsOf(r) ==
    {row \in RowsOf(chat_history, req[r].session_id) :
         row.turn = r /\ row.role = "assistant"}

\* C13: a turn answered with HTTP 200 returns a text that is non-empty, and
\* not only whitespace, and the
\* assistant message it appends to the session's history, which is the last
\* message of the cache, and the row it stores hold that same text, whatever
\* the path and the model output.
C13_AnsweredTextNonEmptyAndStored ==
    \A r \in DOMAIN req :
        Answered(r) =>
            /\ req[r].response # <<>>
            /\ Strip(req[r].response) # <<>>
            /\ Cached(req[r].session_id) # <<>>
            /\ Cached(req[r].session_id)[Len(Cached(req[r].session_id))]
                   = AssistantMessageOf(r)
            /\ \A row \in StoredRowsOf(r) : row.content = req[r].response

\* C13 witness: an unregistered tool requested with content that is only a
\* reasoning trace, answered with the canned sentence, which is stored
C13_Witness ==
    \E r \in DOMAIN req :
        /\ Answered(r) /\ RequestedUnregistered(r)
        /\ Contains(FirstContent(r), "<think>") /\ Cleaned(FirstContent(r)) = <<>>
        /\ req[r].response = <<"I encountered an issue processing your request.">>
        /\ StoredRowsOf(r) # {}

====
